---- MODULE Spec2Model ----
(***************************************************************************)
(* The festival potato register (app.py): an in-memory basket of prices,   *)
(* a Google Sheets spreadsheet holding one worksheet per calendar day, and *)
(* the script run main() that renders the sidebar totals and then handles  *)
(* the button the operator pressed.                                        *)
(*                                                                         *)
(* Text (cell contents, worksheet titles) is a sequence of one-character   *)
(* strings, so that formatting and parsing are computed character by       *)
(* character.  A Python exception is the string naming it.                 *)
(***************************************************************************)
EXTENDS Integers, Sequences, FiniteSets, TLC

VARIABLES book, basket, today, pc, sales, arg, ret

vars == <<book, basket, today, pc, sales, arg, ret>>

(***************************************************************************)
(* Bounds of the model.                                                    *)
(***************************************************************************)
MaxBasket == 1      \* longest basket the operator builds
MaxRows == 1        \* sale rows held by the whole spreadsheet
MaxTicks == 1       \* midnights that pass
MaxStatRows == 2    \* rows after row 0 in a table given to get_today_stats
MaxTabs == 4        \* worksheets given to get_last_n_days_stats
MaxN == 3           \* largest n given to get_last_n_days_stats
MaxDetailLen == 4   \* longest basket given to the detail rendering

(***************************************************************************)
(* Program constants.                                                      *)
(***************************************************************************)
BASE_PRICE == 300
SEMINAR_PRICE == 200
PERIOD_DAYS == 5
DISCOUNT_PASSWORD == "secret"

None == "None"
ValueError == "ValueError"
IndexError == "IndexError"

\* the result of an expression that may raise: a value, or the exception raised
Ok(v) == [exc |-> None, val |-> v]
Raise(e) == [exc |-> e, val |-> None]

(***************************************************************************)
(* Text: str(int), int(str)                                                *)
(***************************************************************************)
DigitChars == <<"0", "1", "2", "3", "4", "5", "6", "7", "8", "9">>

IsDigit(ch) == \E i \in 1..10 : DigitChars[i] = ch

DigitValue(ch) == (CHOOSE i \in 1..10 : DigitChars[i] = ch) - 1

RECURSIVE Str(_)
\* str(n) / f"{n}": the decimal digits of an integer
Str(n) ==
    IF n < 0 THEN <<"-">> \o Str(0 - n)
    ELSE IF n < 10 THEN <<DigitChars[n + 1]>>
    ELSE Str(n \div 10) \o <<DigitChars[(n % 10) + 1]>>

RECURSIVE Strip(_)
\* the whitespace int() ignores around the number
Strip(t) ==
    IF t = <<>> THEN t
    ELSE IF Head(t) = " " THEN Strip(Tail(t))
    ELSE IF t[Len(t)] = " " THEN Strip(SubSeq(t, 1, Len(t) - 1))
    ELSE t

RECURSIVE DigitsValue(_, _)
DigitsValue(t, acc) ==
    IF t = <<>> THEN acc
    ELSE DigitsValue(Tail(t), acc * 10 + DigitValue(Head(t)))

\* int(text): optional sign and decimal digits, else ValueError
ParseInt(text) ==
    LET s == Strip(text)
        signed == s # <<>> /\ Head(s) \in {"-", "+"}
        digits == IF signed THEN Tail(s) ELSE s
    IN  IF digits = <<>> \/ \E i \in 1..Len(digits) : ~IsDigit(digits[i])
        THEN Raise(ValueError)
        ELSE IF signed /\ Head(s) = "-"
             THEN Ok(0 - DigitsValue(digits, 0))
             ELSE Ok(DigitsValue(digits, 0))

(***************************************************************************)
(* datetime.date: a record of year, month, day                             *)
(***************************************************************************)
IsLeap(y) == (y % 4 = 0) /\ ((y % 100 # 0) \/ (y % 400 = 0))

DaysInMonth(y, m) ==
    IF m = 2 THEN (IF IsLeap(y) THEN 29 ELSE 28)
    ELSE IF m \in {4, 6, 9, 11} THEN 30 ELSE 31

Date(y, m, d) == [year |-> y, month |-> m, day |-> d]

\* date.__lt__: dates compare by calendar value
DateLess(a, b) ==
    \/ a.year < b.year
    \/ a.year = b.year /\ a.month < b.month
    \/ a.year = b.year /\ a.month = b.month /\ a.day < b.day

Tomorrow(d) ==
    IF d.day < DaysInMonth(d.year, d.month) THEN Date(d.year, d.month, d.day + 1)
    ELSE IF d.month < 12 THEN Date(d.year, d.month + 1, 1)
    ELSE Date(d.year + 1, 1, 1)

RECURSIVE Pad(_, _)
\* "%0wd"
Pad(t, w) == IF Len(t) >= w THEN t ELSE Pad(<<"0">> \o t, w)

\* date.isoformat(): "YYYY-MM-DD"
IsoFormat(d) ==
    Pad(Str(d.year), 4) \o <<"-">> \o Pad(Str(d.month), 2) \o <<"-">> \o Pad(Str(d.day), 2)

\* date.fromisoformat(text): the date "YYYY-MM-DD" names, else ValueError
FromIsoFormat(text) ==
    IF Len(text) # 10 THEN Raise(ValueError)
    ELSE IF text[5] # "-" \/ text[8] # "-" THEN Raise(ValueError)
    ELSE IF \E i \in {1, 2, 3, 4, 6, 7, 9, 10} : ~IsDigit(text[i]) THEN Raise(ValueError)
    ELSE LET y == DigitsValue(SubSeq(text, 1, 4), 0)
             m == DigitsValue(SubSeq(text, 6, 7), 0)
             d == DigitsValue(SubSeq(text, 9, 10), 0)
         IN  IF y < 1 \/ m < 1 \/ m > 12 THEN Raise(ValueError)
             ELSE IF d < 1 \/ d > DaysInMonth(y, m) THEN Raise(ValueError)
             ELSE Ok(Date(y, m, d))

(***************************************************************************)
(* The spreadsheet: a sequence of worksheets in tab order, each a title    *)
(* and the rows get_all_values() returns (every cell as its text).         *)
(***************************************************************************)
HeaderRow ==
    << <<"t", "i", "m", "e", "s", "t", "a", "m", "p">>,
       <<"d", "a", "t", "e">>,
       <<"c", "o", "u", "n", "t">>,
       <<"a", "m", "o", "u", "n", "t">>,
       <<"d", "e", "t", "a", "i", "l">> >>

Worksheet(t, v) == [title |-> t, values |-> v]

\* sh.worksheet(name): the index of the worksheet titled name, 0 for WorksheetNotFound
FindSheet(bk, name) ==
    IF \E i \in 1..Len(bk) : bk[i].title = name
    THEN CHOOSE i \in 1..Len(bk) : bk[i].title = name
    ELSE 0

\* ws.append_row(row): the row goes after the last row of the worksheet
AppendRow(bk, i, row) ==
    [bk EXCEPT ![i] = Worksheet(bk[i].title, Append(bk[i].values, row))]

\* ws.delete_rows(k): row k (counted from 1) is removed
DeleteRow(bk, i, k) ==
    LET v == bk[i].values
    IN  [bk EXCEPT ![i] =
            Worksheet(bk[i].title, SubSeq(v, 1, k - 1) \o SubSeq(v, k + 1, Len(v)))]

\* The Google Sheets calls of the program; each may fail (StoreUnavailable).
StoreCalls ==
    {"open_by_key", "worksheet", "add_worksheet", "append_header", "get_all_values",
     "worksheets", "append_row", "delete_rows"}

\* an operation's input: the store call that fails in it, if it is reached
Faults == StoreCalls \cup {None}

(***************************************************************************)
(* get_today_worksheet                                                     *)
(***************************************************************************)
\* d is date.today() as read at line 40; result: the spreadsheet afterwards,
\* whether a store call raised, and the index of today's worksheet
get_today_worksheet(bk, d, f) ==
    LET sheet_name == IsoFormat(d)
        found == FindSheet(bk, sheet_name)
        added == Append(bk, Worksheet(sheet_name, <<>>))
    IN  IF f \in {"open_by_key", "worksheet"}
        THEN [book |-> bk, raised |-> TRUE, ws |-> 0]
        ELSE IF found # 0
        THEN [book |-> bk, raised |-> FALSE, ws |-> found]
        ELSE IF f = "add_worksheet"
        THEN [book |-> bk, raised |-> TRUE, ws |-> 0]
        ELSE IF f = "append_header"
        THEN [book |-> added, raised |-> TRUE, ws |-> 0]
        ELSE [book |-> AppendRow(added, Len(added), HeaderRow),
              raised |-> FALSE, ws |-> Len(added)]

(***************************************************************************)
(* get_today_stats, get_last_n_days_stats                                  *)
(***************************************************************************)
\* the try body: c = int(row[2]); a = int(row[3])
RowCountAmount(row) ==
    IF Len(row) < 3 THEN Raise(IndexError)
    ELSE LET c == ParseInt(row[3])
         IN  IF c.exc # None THEN Raise(c.exc)
             ELSE IF Len(row) < 4 THEN Raise(IndexError)
             ELSE LET a == ParseInt(row[4])
                  IN  IF a.exc # None THEN Raise(a.exc)
                      ELSE Ok(<<c.val, a.val>>)

\* except (ValueError, IndexError): continue
Caught == {ValueError, IndexError}

RECURSIVE SumRows_count_before_amount(_, _, _)
\* a slip: the count is added before the amount is read, so a row whose
\* amount is malformed still counts
SumRows_count_before_amount(rows, total_count, total_amount) ==
    IF rows = <<>> THEN Ok(<<total_count, total_amount>>)
    ELSE LET row == Head(rows)
             c == IF Len(row) < 3 THEN Raise(IndexError) ELSE ParseInt(row[3])
             a == IF Len(row) < 4 THEN Raise(IndexError) ELSE ParseInt(row[4])
         IN  IF c.exc # None
             THEN SumRows_count_before_amount(Tail(rows), total_count, total_amount)
             ELSE IF a.exc # None
             THEN SumRows_count_before_amount(Tail(rows), total_count + c.val, total_amount)
             ELSE SumRows_count_before_amount(Tail(rows), total_count + c.val,
                                              total_amount + a.val)

RECURSIVE SumRows(_, _, _)
\* the loop over values[1:]; an exception that is not caught leaves the loop
SumRows(rows, total_count, total_amount) ==
    IF rows = <<>> THEN Ok(<<total_count, total_amount>>)
    ELSE LET r == RowCountAmount(Head(rows))
         IN  IF r.exc \in Caught
             THEN SumRows(Tail(rows), total_count, total_amount)
             ELSE IF r.exc # None THEN Raise(r.exc)
             ELSE SumRows(Tail(rows), total_count + r.val[1], total_amount + r.val[2])

\* lines 54-69: the totals of the rows get_all_values() returned
TodayTotals(values) ==
    IF Len(values) <= 1 THEN Ok(<<0, 0>>)
    ELSE SumRows(Tail(values), 0, 0)

get_today_stats(bk, d, f) ==
    LET w == get_today_worksheet(bk, d, f)
    IN  IF w.raised \/ f = "get_all_values"
        THEN [book |-> w.book, raised |-> TRUE, stats |-> Raise("StoreUnavailable")]
        ELSE [book |-> w.book, raised |-> FALSE,
              stats |-> TodayTotals(w.book[w.ws].values)]

RECURSIVE DateSheets(_)
\* lines 79-87: the worksheets whose title is a date, in tab order
DateSheets(wss) ==
    IF wss = <<>> THEN <<>>
    ELSE LET d == FromIsoFormat(Head(wss).title)
         IN  IF d.exc = ValueError THEN DateSheets(Tail(wss))
             ELSE <<[d |-> d.val, ws |-> Head(wss)]>> \o DateSheets(Tail(wss))

RECURSIVE InsertByDate(_, _)
InsertByDate(sorted, x) ==
    IF sorted = <<>> THEN <<x>>
    ELSE IF DateLess(x.d, Head(sorted).d) THEN <<x>> \o sorted
    ELSE <<Head(sorted)>> \o InsertByDate(Tail(sorted), x)

RECURSIVE SortByDate(_)
\* date_sheets.sort(key=lambda x: x[0]): ascending by date, stable
SortByDate(s) ==
    IF s = <<>> THEN <<>>
    ELSE InsertByDate(SortByDate(SubSeq(s, 1, Len(s) - 1)), s[Len(s)])

\* a slip: s[:n], the first n
LastN_first_n(s, n) ==
    IF n >= Len(s) THEN s ELSE SubSeq(s, 1, n)

\* s[-n:]
LastN(s, n) ==
    IF n = 0 \/ n >= Len(s) THEN s ELSE SubSeq(s, Len(s) - n + 1, Len(s))

RECURSIVE SumSheets(_, _, _)
\* lines 99-110
SumSheets(dsheets, total_count, total_amount) ==
    IF dsheets = <<>> THEN Ok(<<total_count, total_amount>>)
    ELSE LET values == Head(dsheets).ws.values
             t == IF Len(values) <= 1 THEN Ok(<<total_count, total_amount>>)
                  ELSE SumRows(Tail(values), total_count, total_amount)
         IN  IF t.exc # None THEN t
             ELSE SumSheets(Tail(dsheets), t.val[1], t.val[2])

\* lines 79-115 on the worksheets sh.worksheets() returned
PeriodTotals(wss, n) ==
    LET date_sheets == DateSheets(wss)
        lastn == LastN(SortByDate(date_sheets), n)
        t == SumSheets(lastn, 0, 0)
    IN  IF date_sheets = <<>>
        THEN Ok([count |-> 0, amount |-> 0, start |-> None, end |-> None])
        ELSE IF t.exc # None THEN t
        ELSE Ok([count |-> t.val[1], amount |-> t.val[2],
                 start |-> IsoFormat(lastn[1].d),
                 end |-> IsoFormat(lastn[Len(lastn)].d)])

get_last_n_days_stats(bk, n, f) ==
    IF f \in {"open_by_key", "worksheets", "get_all_values"}
    THEN Raise("StoreUnavailable")
    ELSE PeriodTotals(bk, n)

(***************************************************************************)
(* save_transaction, cancel_last_transaction                               *)
(***************************************************************************)
RECURSIVE SumOf(_)
SumOf(b) == IF b = <<>> THEN 0 ELSE Head(b) + SumOf(Tail(b))

CountOf(b, p) == Cardinality({i \in 1..Len(b) : b[i] = p})

RECURSIVE CounterKeys(_, _)
\* the keys of Counter(basket), a dict: in order of first occurrence
CounterKeys(b, seen) ==
    IF b = <<>> THEN seen
    ELSE IF \E i \in 1..Len(seen) : seen[i] = Head(b) THEN CounterKeys(Tail(b), seen)
    ELSE CounterKeys(Tail(b), Append(seen, Head(b)))

\* counter.items(): (price, cnt) pairs
CounterItems(b) ==
    LET keys == CounterKeys(b, <<>>)
    IN  [i \in 1..Len(keys) |-> <<keys[i], CountOf(b, keys[i])>>]

\* tuple comparison
ItemLess(x, y) == x[1] < y[1] \/ (x[1] = y[1] /\ x[2] < y[2])

RECURSIVE InsertItem(_, _)
InsertItem(sorted, x) ==
    IF sorted = <<>> THEN <<x>>
    ELSE IF ItemLess(x, Head(sorted)) THEN <<x>> \o sorted
    ELSE <<Head(sorted)>> \o InsertItem(Tail(sorted), x)

\* a slip: sorted() left out, the items stay in order of first occurrence
Sorted_left_out(items) == items

RECURSIVE Sorted(_)
\* sorted(counter.items())
Sorted(items) ==
    IF items = <<>> THEN <<>>
    ELSE InsertItem(Sorted(SubSeq(items, 1, Len(items) - 1)), items[Len(items)])

\* f"{price}円×{cnt}"
DetailPart(item) == Str(item[1]) \o <<"円", "×">> \o Str(item[2])

RECURSIVE Join(_, _)
\* sep.join(parts)
Join(sep, parts) ==
    IF parts = <<>> THEN <<>>
    ELSE IF Len(parts) = 1 THEN parts[1]
    ELSE parts[1] \o sep \o Join(sep, Tail(parts))

\* lines 147-151
Detail(b) ==
    LET items == Sorted(CounterItems(b))
    IN  Join(<<",", " ">>, [i \in 1..Len(items) |-> DetailPart(items[i])])

Noon == <<"1", "2", ":", "0", "0", ":", "0", "0">>

\* now.strftime("%H:%M:%S"); the clock of the model keeps the calendar date only,
\* every stamp reads noon
Strftime(now) == Noon

\* line 154: [ts, d, count, amount, detail] as the cells the sheet then holds
TransactionRow(b, now) ==
    <<Strftime(now), IsoFormat(now), Str(Len(b)), Str(SumOf(b)), Detail(b)>>

\* d is date.today() read in get_today_worksheet, now is datetime.now() read at
\* line 140
save_transaction(bk, b, d, now, f) ==
    IF b = <<>> THEN [book |-> bk, res |-> "EmptyBasketError"]
    ELSE LET w == get_today_worksheet(bk, d, f)
         IN  IF w.raised \/ f = "append_row"
             THEN [book |-> w.book, res |-> "StoreUnavailable"]
             ELSE [book |-> AppendRow(w.book, w.ws, TransactionRow(b, now)),
                   res |-> "saved"]

\* a slip: the guard is len(values) < 1, so the header row is deleted
cancel_last_transaction_lt_1(bk, d, f) ==
    LET w == get_today_worksheet(bk, d, f)
    IN  IF w.raised \/ f = "get_all_values"
        THEN [book |-> w.book, res |-> "StoreUnavailable"]
        ELSE LET values == w.book[w.ws].values
                 last_row == Len(values)
             IN  IF Len(values) < 1
                 THEN [book |-> w.book, res |-> "EmptyLedgerError"]
                 ELSE IF f = "delete_rows"
                 THEN [book |-> w.book, res |-> "StoreUnavailable"]
                 ELSE [book |-> DeleteRow(w.book, w.ws, last_row), res |-> "voided"]

cancel_last_transaction(bk, d, f) ==
    LET w == get_today_worksheet(bk, d, f)
    IN  IF w.raised \/ f = "get_all_values"
        THEN [book |-> w.book, res |-> "StoreUnavailable"]
        ELSE LET values == w.book[w.ws].values
                 last_row == Len(values)
             IN  IF Len(values) <= 1
                 THEN [book |-> w.book, res |-> "EmptyLedgerError"]
                 ELSE IF f = "delete_rows"
                 THEN [book |-> w.book, res |-> "StoreUnavailable"]
                 ELSE [book |-> DeleteRow(w.book, w.ws, last_row), res |-> "voided"]

(***************************************************************************)
(* main(): the button handlers.  An exception of the store ends the script  *)
(* run where it is raised; st.session_state keeps the basket.              *)
(***************************************************************************)
\* a slip: the handler does not test the basket before it saves
btn_confirm_main_unguarded(bk, b, d, now, f) ==
    LET s == save_transaction(bk, b, d, now, f)
    IN  IF s.res = "StoreUnavailable"
        THEN [book |-> s.book, basket |-> b, res |-> "StoreUnavailable"]
        ELSE [book |-> s.book, basket |-> <<>>, res |-> "saved"]

\* lines 251-257
btn_confirm_main(bk, b, d, now, f) ==
    IF b # <<>>
    THEN LET s == save_transaction(bk, b, d, now, f)
         IN  IF s.res = "StoreUnavailable"
             THEN [book |-> s.book, basket |-> b, res |-> "StoreUnavailable"]
             ELSE [book |-> s.book, basket |-> <<>>, res |-> "saved"]
    ELSE [book |-> bk, basket |-> b, res |-> "EmptyBasketError"]

\* lines 261-263
btn_cancel_main(bk, b, d, f) ==
    LET c == cancel_last_transaction(bk, d, f)
    IN  [book |-> c.book, basket |-> b, res |-> c.res]

(***************************************************************************)
(* The register session                                                    *)
(*   book    the spreadsheet                                               *)
(*   basket  st.session_state.basket                                       *)
(*   today   the calendar date of the clock                                *)
(*   pc      where the script is: "idle" between two runs, "buttons" once  *)
(*           the sidebar of a run is rendered and its button is handled    *)
(*   sales   history: per day worksheet, the rows of the sales confirmed   *)
(*           into it and not voided, in confirmation order                 *)
(*   arg, ret  argument and result of a function called on its own         *)
(***************************************************************************)
FirstDay == Date(2025, 11, 30)

RECURSIVE DayAfter(_, _)
DayAfter(d, k) == IF k = 0 THEN d ELSE DayAfter(Tomorrow(d), k - 1)

Days == {DayAfter(FirstDay, k) : k \in 0..MaxTicks}

DayTitles == {IsoFormat(d) : d \in Days}

\* the worksheet a new spreadsheet starts with
Sheet1 == <<"S", "h", "e", "e", "t", "1">>

RECURSIVE SaleRowCount(_)
\* rows other than header rows, over all worksheets
SaleRowCount(bk) ==
    IF bk = <<>> THEN 0
    ELSE Cardinality({i \in 1..Len(Head(bk).values) : Head(bk).values[i] # HeaderRow})
         + SaleRowCount(Tail(bk))

\* the store calls each operation makes
WorksheetFaults == {None, "open_by_key", "worksheet", "add_worksheet", "append_header"}
SidebarFaults == WorksheetFaults \cup {"get_all_values", "worksheets"}
ConfirmFaults == WorksheetFaults \cup {"append_row"}
CancelFaults == WorksheetFaults \cup {"get_all_values", "delete_rows"}

\* datetime.now() at line 140, after date.today() gave d at line 40
LaterReads(d) == {d, Tomorrow(d)} \cap Days

NotCalled == [called |-> FALSE]
Returned(v) == [called |-> TRUE, val |-> v]

Init ==
    /\ book = <<Worksheet(Sheet1, <<>>)>>
    /\ basket = <<>>
    /\ today = FirstDay
    /\ pc = "idle"
    /\ sales = [t \in DayTitles |-> <<>>]
    /\ arg = None
    /\ ret = NotCalled

\* midnight passes
Tick ==
    /\ Tomorrow(today) \in Days
    /\ today' = Tomorrow(today)
    /\ UNCHANGED <<book, basket, pc, sales, arg, ret>>

\* lines 160-180: a script run starts and renders the sidebar; an exception
\* ends the run
Sidebar ==
    /\ pc = "idle"
    /\ \E f \in SidebarFaults :
          LET t == get_today_stats(book, today, f)
          IN  /\ book' = t.book
              /\ pc' = IF t.raised THEN "idle"
                       ELSE IF get_last_n_days_stats(t.book, PERIOD_DAYS, f).exc # None
                       THEN "idle"
                       ELSE "buttons"
    /\ UNCHANGED <<basket, today, sales, arg, ret>>

\* the body of the four add buttons: st.session_state.basket.append(price)
AddToBasket(price) ==
    /\ pc = "buttons"
    /\ Len(basket) < MaxBasket
    /\ basket' = Append(basket, price)
    /\ pc' = "idle"
    /\ UNCHANGED <<book, today, sales, arg, ret>>

\* the values typed into the two number inputs (any of 0..10000): those of the
\* two fixed buttons, so that the baskets of the model stay few
PriceInputs == {SEMINAR_PRICE, BASE_PRICE}

\* lines 196-197
BtnBase == AddToBasket(BASE_PRICE)

\* lines 201-202
BtnSemi == AddToBasket(SEMINAR_PRICE)

\* lines 207-217
BtnSale == \E sale_price \in PriceInputs : AddToBasket(sale_price)

\* lines 220-234: the button exists only while the password typed is the
\* configured one; any other text changes nothing
BtnSpecial ==
    \E pwd \in {DISCOUNT_PASSWORD, "wrong", ""} :
        IF pwd = DISCOUNT_PASSWORD
        THEN \E discount_price \in PriceInputs : AddToBasket(discount_price)
        ELSE /\ pc = "buttons"
             /\ pc' = "idle"
             /\ UNCHANGED <<book, basket, today, sales, arg, ret>>

\* lines 245-247
BtnReset ==
    /\ pc = "buttons"
    /\ basket' = <<>>
    /\ pc' = "idle"
    /\ UNCHANGED <<book, today, sales, arg, ret>>

\* lines 251-257; midnight may pass between the two clock reads of the handler
BtnConfirm ==
    /\ pc = "buttons"
    /\ basket = <<>> \/ SaleRowCount(book) < MaxRows
    /\ \E f \in ConfirmFaults, now \in LaterReads(today) :
          LET r == btn_confirm_main(book, basket, today, now, f)
          IN  /\ book' = r.book
              /\ basket' = r.basket
              /\ today' = now
              /\ sales' = IF r.res = "saved"
                          THEN [sales EXCEPT ![IsoFormat(today)] =
                                    Append(@, TransactionRow(basket, now))]
                          ELSE sales
    /\ pc' = "idle"
    /\ UNCHANGED <<arg, ret>>

\* lines 261-263
BtnCancel ==
    /\ pc = "buttons"
    /\ \E f \in CancelFaults :
          LET r == btn_cancel_main(book, basket, today, f)
          IN  /\ book' = r.book
              /\ basket' = r.basket
              /\ sales' = IF r.res = "voided" /\ sales[IsoFormat(today)] # <<>>
                          THEN [sales EXCEPT ![IsoFormat(today)] =
                                    SubSeq(@, 1, Len(@) - 1)]
                          ELSE sales
    /\ pc' = "idle"
    /\ UNCHANGED <<today, arg, ret>>

Next ==
    \/ Tick
    \/ Sidebar
    \/ BtnBase
    \/ BtnSemi
    \/ BtnSale
    \/ BtnSpecial
    \/ BtnReset
    \/ BtnConfirm
    \/ BtnCancel

Spec == Init /\ [][Next]_vars

(***************************************************************************)
(* The functions of the program called on their own: the argument is       *)
(* drawn from a bounded set, the call stores the result.                   *)
(***************************************************************************)
SessionStart ==
    /\ book = <<Worksheet(Sheet1, <<>>)>>
    /\ basket = <<>>
    /\ today = FirstDay
    /\ pc = "idle"
    /\ sales = [t \in DayTitles |-> <<>>]

SessionUnchanged == UNCHANGED <<book, basket, today, pc, sales>>

\* the sequences over S of length lo..hi
SeqsOf(S, lo, hi) == UNION {[1..n -> S] : n \in lo..hi}

\* a row as get_all_values() returns it, from the texts of its count and amount cells
RowOf(d, c, a) == <<Noon, IsoFormat(d), c, a, <<"-">>>>

\* ---- get_today_stats on the rows of a worksheet ----
CountCells == {Str(2), <<"x">>, <<>>, <<"-", "1">>}
AmountCells == {Str(600), <<"x">>, <<" ", "7">>}

StatRows ==
    {RowOf(FirstDay, c, a) : c \in CountCells, a \in AmountCells}
    \cup {<<Noon, IsoFormat(FirstDay)>>}
    \cup {<<Noon, IsoFormat(FirstDay), c>> : c \in CountCells}

\* row 0 is the header the program wrote, or whatever a hand edit left there
StatTables ==
    {<<>>} \cup
    {<<r0>> \o rest : r0 \in {HeaderRow, RowOf(FirstDay, Str(2), Str(600))},
                      rest \in SeqsOf(StatRows, 0, MaxStatRows)}

InitStats == SessionStart /\ arg \in StatTables /\ ret = NotCalled

CallTodayTotals ==
    /\ ~ret.called
    /\ ret' = Returned(TodayTotals(arg))
    /\ UNCHANGED arg
    /\ SessionUnchanged

SpecStats == InitStats /\ [][CallTodayTotals]_vars

\* ---- get_last_n_days_stats on the worksheets of a spreadsheet ----
Nov19 == Date(2025, 11, 19)
Nov20 == Date(2025, 11, 20)
Nov21 == Date(2025, 11, 21)
Dec01 == Date(2025, 12, 1)

PeriodSheets ==
    { Worksheet(IsoFormat(Nov19), <<HeaderRow, RowOf(Nov19, Str(1), Str(300))>>),
      Worksheet(IsoFormat(Nov20), <<HeaderRow, RowOf(Nov20, Str(2), Str(400))>>),
      Worksheet(IsoFormat(Nov21),
                <<HeaderRow, RowOf(Nov21, Str(1), Str(300)), RowOf(Nov21, Str(2), Str(600))>>),
      Worksheet(IsoFormat(Dec01),
                <<HeaderRow, RowOf(Dec01, <<"x">>, Str(500)), RowOf(Dec01, Str(4), Str(800))>>),
      Worksheet(<<"e", "x", "t", "r", "a", "s">>,
                <<HeaderRow, RowOf(Nov19, Str(9), Str(9000))>>),
      Worksheet(<<"2", "0", "2", "5", "-", "1", "3", "-", "0", "1">>,
                <<HeaderRow, RowOf(Nov19, Str(7), Str(7000))>>) }

\* titles are unique within a spreadsheet
Spreadsheets ==
    {w \in SeqsOf(PeriodSheets, 0, MaxTabs) :
        \A i, j \in 1..Len(w) : i # j => w[i].title # w[j].title}

InitPeriod ==
    /\ SessionStart
    /\ arg \in {[wss |-> w, n |-> n] : w \in Spreadsheets, n \in 1..MaxN}
    /\ ret = NotCalled

CallPeriodTotals ==
    /\ ~ret.called
    /\ ret' = Returned(PeriodTotals(arg.wss, arg.n))
    /\ UNCHANGED arg
    /\ SessionUnchanged

SpecPeriod == InitPeriod /\ [][CallPeriodTotals]_vars

\* ---- the detail of a basket ----
DetailPrices == {SEMINAR_PRICE, BASE_PRICE, 1000}

InitDetail ==
    /\ SessionStart
    /\ arg \in SeqsOf(DetailPrices, 1, MaxDetailLen)
    /\ ret = NotCalled

CallDetail ==
    /\ ~ret.called
    /\ ret' = Returned(Detail(arg))
    /\ UNCHANGED arg
    /\ SessionUnchanged

SpecDetail == InitDetail /\ [][CallDetail]_vars

(***************************************************************************)
(* Vocabulary of the claims                                                *)
(***************************************************************************)
\* the rows of the worksheet titled name; none when there is no such worksheet
ValuesOf(bk, name) ==
    IF FindSheet(bk, name) = 0 THEN <<>> ELSE bk[FindSheet(bk, name)].values

Ledger(bk, d) == ValuesOf(bk, IsoFormat(d))

IsHeader(row) == row = HeaderRow

IsSale(row) == row # HeaderRow

\* the Transaction Rows of a ledger: its rows other than the header row
TxRows(values) == SelectSeq(values, IsSale)

Absent(bk, d) == FindSheet(bk, IsoFormat(d)) = 0

HeaderOnly(bk, d) == ~Absent(bk, d) /\ Ledger(bk, d) = <<HeaderRow>>

\* every worksheet bk held is in after, unchanged and at its place
KeepsAll(bk, after) ==
    /\ Len(after) >= Len(bk)
    /\ \A i \in 1..Len(bk) : after[i] = bk[i]

\* as KeepsAll, but for the worksheet titled name
KeepsOthers(bk, after, name) ==
    /\ Len(after) >= Len(bk)
    /\ \A i \in 1..Len(bk) : bk[i].title # name => after[i] = bk[i]
    /\ \A i \in 1..Len(after) : i > Len(bk) => after[i].title = name

\* the rows after row 0 whose count and amount cells are both there and both
\* read as integers
GoodRows(values) ==
    {i \in 2..Len(values) :
        /\ Len(values[i]) >= 4
        /\ ParseInt(values[i][3]).exc = None
        /\ ParseInt(values[i][4]).exc = None}

RECURSIVE SumCells(_, _, _)
\* the sum of the integers cell col holds in the rows rows of values
SumCells(values, rows, col) ==
    IF rows = {} THEN 0
    ELSE LET i == CHOOSE j \in rows : TRUE
         IN  ParseInt(values[i][col]).val + SumCells(values, rows \ {i}, col)

GoodTotals(values) ==
    <<SumCells(values, GoodRows(values), 3), SumCells(values, GoodRows(values), 4)>>

(***************************************************************************)
(* C1                                                                      *)
(***************************************************************************)
\* C1: for every non-empty basket and every state of today's ledger,
\* confirm_sale followed at once by void_last_sale (no store call failing, no
\* midnight passing) brings the number of Transaction Rows of today's ledger
\* back to what it was before the confirm, and the basket is empty afterwards.
C1_ConfirmThenVoidRestoresRowCount ==
    (pc = "buttons" /\ basket # <<>>) =>
        LET c == btn_confirm_main(book, basket, today, today, None)
            v == btn_cancel_main(c.book, c.basket, today, None)
        IN  /\ c.res = "saved"
            /\ Len(TxRows(Ledger(v.book, today))) = Len(TxRows(Ledger(book, today)))
            /\ v.basket = <<>>

(***************************************************************************)
(* C2                                                                      *)
(***************************************************************************)
\* C2: a successful confirm_sale of a non-empty basket B appends exactly one
\* row at the end of today's ledger (created with its header when absent), with
\* item_count = len(B) and total_amount = sum(B), touches no other worksheet,
\* clears the basket, and so raises today_stats by exactly (len(B), sum(B)).
C2_ConfirmAppendsOneRow ==
    (pc = "buttons" /\ basket # <<>>) =>
        \A now \in LaterReads(today) :
            LET c == btn_confirm_main(book, basket, today, now, None)
                before == IF Absent(book, today) THEN <<HeaderRow>> ELSE Ledger(book, today)
                after == Ledger(c.book, today)
                row == after[Len(after)]
            IN  /\ c.res = "saved"
                /\ Len(after) = Len(before) + 1
                /\ SubSeq(after, 1, Len(before)) = before
                /\ ParseInt(row[3]) = Ok(Len(basket))
                /\ ParseInt(row[4]) = Ok(SumOf(basket))
                /\ KeepsOthers(book, c.book, IsoFormat(today))
                /\ c.basket = <<>>
                /\ TodayTotals(after).val[1] = TodayTotals(before).val[1] + Len(basket)
                /\ TodayTotals(after).val[2] = TodayTotals(before).val[2] + SumOf(basket)

(***************************************************************************)
(* C3                                                                      *)
(***************************************************************************)
\* a step of the script in which a store call failed
SidebarRaised ==
    /\ pc = "idle" /\ pc' = "idle"
    /\ UNCHANGED <<basket, today>>
    /\ \E f \in SidebarFaults :
          LET t == get_today_stats(book, today, f)
          IN  /\ t.raised \/ get_last_n_days_stats(t.book, PERIOD_DAYS, f).exc # None
              /\ book' = t.book

ConfirmRaised ==
    /\ pc = "buttons" /\ pc' = "idle"
    /\ \E f \in ConfirmFaults, now \in LaterReads(today) :
          LET r == btn_confirm_main(book, basket, today, now, f)
          IN  /\ r.res = "StoreUnavailable"
              /\ book' = r.book /\ basket' = r.basket /\ today' = now

CancelRaised ==
    /\ pc = "buttons" /\ pc' = "idle"
    /\ UNCHANGED today
    /\ \E f \in CancelFaults :
          LET r == btn_cancel_main(book, basket, today, f)
          IN  /\ r.res = "StoreUnavailable"
              /\ book' = r.book /\ basket' = r.basket

\* every worksheet named by a date starts with the header row
LedgersHaveHeader(bk) ==
    \A i \in 1..Len(bk) :
        FromIsoFormat(bk[i].title).exc = None =>
            bk[i].values # <<>> /\ bk[i].values[1] = HeaderRow

\* C3: an operation in which a store call fails with StoreUnavailable leaves
\* the basket and every ledger exactly as they were (a failed confirm_sale
\* appends nothing and keeps the basket), and no ledger is ever left created
\* without its header row.
C3_NoPartialMutation ==
    [][ /\ (SidebarRaised \/ ConfirmRaised \/ CancelRaised)
            => (book' = book /\ basket' = basket)
        /\ LedgersHaveHeader(book') ]_vars

C5_ConfirmEmptyBasketChangesNothing ==
    (pc = "buttons" /\ basket = <<>>) =>
        \A f \in ConfirmFaults, now \in LaterReads(today) :
            LET r == btn_confirm_main(book, basket, today, now, f)
                s == save_transaction(book, basket, today, now, f)
            IN  /\ r.res = "EmptyBasketError"
                /\ r.book = book
                /\ r.basket = <<>>
                /\ s.res = "EmptyBasketError"
                /\ s.book = book

\* confirm is pressed on an empty basket while today's ledger holds a sale
C5_ConfirmPressedOnEmptyBasket ==
    /\ pc = "buttons"
    /\ basket = <<>>
    /\ TxRows(Ledger(book, today)) # <<>>
    /\ btn_confirm_main(book, basket, today, today, None).res = "EmptyBasketError"

(***************************************************************************)
(* C6                                                                      *)
(***************************************************************************)
\* C6: each day's ledger that holds any row is the header row followed by
\* exactly the rows of the sales confirmed into it and not voided, in
\* confirmation order; a successful void_last_sale deletes the last row of
\* today's ledger and changes nothing else (the other rows, the header, the
\* other worksheets, the basket).
C6_LedgerIsHeaderThenSales ==
    /\ \A d \in Days :
          (Ledger(book, d) # <<>> \/ sales[IsoFormat(d)] # <<>>) =>
              Ledger(book, d) = <<HeaderRow>> \o sales[IsoFormat(d)]
    /\ pc = "buttons" =>
          LET r == btn_cancel_main(book, basket, today, None)
              v == Ledger(book, today)
          IN  r.res = "voided" =>
                 /\ Ledger(r.book, today) = SubSeq(v, 1, Len(v) - 1)
                 /\ KeepsOthers(book, r.book, IsoFormat(today))
                 /\ r.basket = basket

(***************************************************************************)
(* C10                                                                     *)
(***************************************************************************)
\* C10: every Transaction Row of the ledger named D carries D in its date
\* field, also when midnight passes between two operator actions or between
\* the two clock reads of a confirm_sale.
C10_RowsCarryTheirLedgersDate ==
    \A i \in 1..Len(book) :
        FromIsoFormat(book[i].title).exc = None =>
            \A k \in 1..Len(book[i].values) :
                IsSale(book[i].values[k]) => book[i].values[k][2] = book[i].title

(***************************************************************************)
(* C7                                                                      *)
(***************************************************************************)
\* C7: get_today_stats never fails on a malformed row and returns the sums of
\* count and amount over exactly the rows after row 0 (the header) whose count
\* and amount cells are both there and both read as integers; a row with
\* either cell missing or not a number adds to neither sum, and a table of a
\* header alone gives (0, 0).
C7_TodayStatsSkipsMalformedRows ==
    ret.called => ret.val = Ok(GoodTotals(arg))

\* the spec's example: a row whose count is text, then the row {2, 600}
C7_OneMalformedOneValidRow ==
    /\ ret.called
    /\ arg = <<HeaderRow, RowOf(FirstDay, <<"x">>, Str(600)), RowOf(FirstDay, Str(2), Str(600))>>
    /\ ret.val = Ok(<<2, 600>>)

(***************************************************************************)
(* C8                                                                      *)
(***************************************************************************)
DatedTabs(wss) == {i \in 1..Len(wss) : FromIsoFormat(wss[i].title).exc = None}

DateOfTab(wss, i) == FromIsoFormat(wss[i].title).val

\* the tabs fewer than n dated tabs are later than
LatestTabs(wss, n) ==
    {i \in DatedTabs(wss) :
        Cardinality({j \in DatedTabs(wss) :
                        DateLess(DateOfTab(wss, i), DateOfTab(wss, j))}) < n}

RECURSIVE SumTabs(_, _, _)
SumTabs(wss, tabs, k) ==
    IF tabs = {} THEN 0
    ELSE LET i == CHOOSE j \in tabs : TRUE
         IN  GoodTotals(wss[i].values)[k] + SumTabs(wss, tabs \ {i}, k)

Min(a, b) == IF a < b THEN a ELSE b

\* C8: for n >= 1, get_last_n_days_stats(n) ignores the worksheets whose title
\* is no ISO date, takes the min(n, k) latest of the k dated ones by calendar
\* order, and returns the sums of count and amount over the well-formed rows of
\* exactly those, with the earliest and the latest of their dates as ISO text;
\* it returns (0, 0, None, None) exactly when there is no dated worksheet.
C8_PeriodStatsOverLatestDatedTabs ==
    ret.called =>
        LET wss == arg.wss
            dated == DatedTabs(wss)
            latest == LatestTabs(wss, arg.n)
            v == ret.val.val
        IN  /\ ret.val.exc = None
            /\ Cardinality(latest) = Min(arg.n, Cardinality(dated))
            /\ v.count = SumTabs(wss, latest, 1)
            /\ v.amount = SumTabs(wss, latest, 2)
            /\ (dated = {}) <=> (v = [count |-> 0, amount |-> 0, start |-> None, end |-> None])
            /\ dated # {} =>
                  \E lo \in latest, hi \in latest :
                      /\ \A i \in latest : ~DateLess(DateOfTab(wss, i), DateOfTab(wss, lo))
                      /\ \A i \in latest : ~DateLess(DateOfTab(wss, hi), DateOfTab(wss, i))
                      /\ v.start = wss[lo].title
                      /\ v.end = wss[hi].title

\* the spec's example: period_stats(3) over 11-19 (1, 300), 11-20 (2, 400),
\* 11-21 (3, 900) and the table extras
C8_ThreeDaysAndExtras ==
    /\ ret.called
    /\ arg.n = 3
    /\ {arg.wss[i].title : i \in 1..Len(arg.wss)} =
          {IsoFormat(Nov19), IsoFormat(Nov20), IsoFormat(Nov21), <<"e", "x", "t", "r", "a", "s">>}
    /\ ret.val = Ok([count |-> 6, amount |-> 1600,
                     start |-> <<"2", "0", "2", "5", "-", "1", "1", "-", "1", "9">>,
                     end |-> <<"2", "0", "2", "5", "-", "1", "1", "-", "2", "1">>])

(***************************************************************************)
(* C9                                                                      *)
(***************************************************************************)
Prices(b) == {b[i] : i \in 1..Len(b)}

\* the baskets holding the same prices as b, as often, in any order
Reorderings(b) ==
    {q \in [1..Len(b) -> Prices(b)] : \A p \in Prices(b) : CountOf(q, p) = CountOf(b, p)}

RECURSIVE Ascending(_, _)
\* each price of S once, lowest first, as "<price>円×<count in b>" joined by ", "
Ascending(S, b) ==
    IF S = {} THEN <<>>
    ELSE LET p == CHOOSE x \in S : \A y \in S : x <= y
             part == Str(p) \o <<"円", "×">> \o Str(CountOf(b, p))
         IN  IF S = {p} THEN part
             ELSE part \o <<",", " ">> \o Ascending(S \ {p}, b)

\* C9: the detail of a basket depends on its multiset of prices only: every
\* permutation of the basket gives the same detail, which lists each distinct
\* price once, in ascending order of price, as "<price>円×<count>" joined by ", ".
C9_DetailOfTheMultiset ==
    ret.called =>
        /\ ret.val = Ascending(Prices(arg), arg)
        /\ \A q \in Reorderings(arg) : Detail(q) = ret.val

\* the spec's example: [300, 200, 300] gives "200円×1, 300円×2"
C9_ThreeHundredTwoHundredThreeHundred ==
    /\ ret.called
    /\ arg = <<300, 200, 300>>
    /\ ret.val = <<"2", "0", "0", "円", "×", "1", ",", " ", "3", "0", "0", "円", "×", "2">>

====
